---- MODULE Spec2Model ----
(***************************************************************************)
(* A model of martingale-sim: Simulation.run (src/src/models.py) driving   *)
(* the strategies of src/src/strategies.py against the games of            *)
(* src/src/games.py.                                                       *)
(*                                                                         *)
(* Reals are modelled by integers: every value the runs below produce is   *)
(* an integer that a Python float holds exactly, so float(x) keeps the     *)
(* value of a number and parses the value of a numeric string.  NaN and    *)
(* infinities are outside the model.                                       *)
(***************************************************************************)
EXTENDS Integers, Sequences, FiniteSets, TLC

\* ------------------------------------------------------------------ bounds
MaxRounds == 3
MaxRuns == 2

\* ------------------------------------------------------- values of a bet
\* What decide_bet may hand back: None, a number, a string float() parses
\* ("10"), or an object float() rejects ("abc", a list).
None == [tag |-> "none", val |-> 0]
Num(v) == [tag |-> "num", val |-> v]
NumStr(v) == [tag |-> "numstr", val |-> v]
Obj == [tag |-> "obj", val |-> 0]

\* ------------------------------------------------------------ strategies
FixedBettingStrategy(bet_amount, name) ==
    [name |-> name, kind |-> "fixed", bet_amount |-> bet_amount, current_bet |-> None]

\* the field bet_amount holds base_bet
DoubleOnLossStrategy(base_bet, name) ==
    [name |-> name, kind |-> "double", bet_amount |-> Num(base_bet), current_bet |-> Num(base_bet)]

\* Any other implementation of the Strategy contract: decide_bet may return
\* any of AnyBets on any call.
AnyStrategy(name) ==
    [name |-> name, kind |-> "any", bet_amount |-> None, current_bet |-> None]

AnyBets == {None, Num(10), Num(-5), Obj}

\* The strategy lists a Simulation is constructed with.
StrategyLists ==
    { <<>>,
      <<AnyStrategy("s1")>>,
      <<AnyStrategy("s1"), FixedBettingStrategy(Num(10), "s1")>>,
      <<FixedBettingStrategy(Num(10), "s1"), AnyStrategy("s2")>>,
      <<DoubleOnLossStrategy(1, "s1"), FixedBettingStrategy(NumStr(10), "s1")>>,
      <<FixedBettingStrategy(Num(30), "s1"), AnyStrategy("s2"), FixedBettingStrategy(Obj, "s1")>> }

\* ----------------------------------------------------------------- games
BenoulliProcess(p) ==
    [kind |-> "bernoulli", p |-> p, a |-> 0, b |-> 0, position |-> 0, step_list |-> <<>>]

RandomWalkGame(a, b, p) ==
    [kind |-> "randomwalk", p |-> p, a |-> a, b |-> b, position |-> 0, step_list |-> <<>>]

\* Probabilities and np.random.rand() draws, in hundredths; rand() is in [0, 1).
Games == {BenoulliProcess(50), BenoulliProcess(100), RandomWalkGame(-1, 1, 50)}
RandVals == {0, 75}

\* The Simulations on which run is called more than once.
RerunStrategyLists == { <<DoubleOnLossStrategy(1, "s1"), AnyStrategy("s2")>> }
RerunGames == {BenoulliProcess(50)}

\* --------------------------------------------- Simulation's other inputs
MaxBets == {-1, 20}
StartValues == {100}
StopConditions == {"none", "always", "loss", "len2"}

VARIABLES
    strategies,     \* Simulation.strategies, each with its mutable state
    game,           \* Simulation.game
    max_bet,        \* Simulation.max_bet
    start_value,    \* Simulation.start_value
    self_history,   \* Simulation.history (records of the convenience History)
    pc,             \* "idle", "next" (top of the strategy loop), "loop", "returned", "raised"
    rounds,         \* run's argument
    stop_condition, \* run's argument
    si,             \* index in strategies of the strategy being (or next to be) run
    r,              \* iterations of the inner loop started for this strategy
    history,        \* records of the local History of this strategy
    gain,           \* the local gain
    broke,          \* the inner loop was left by break
    results,        \* the local results dict
    returned,       \* what run returned: [ok, value]
    error,          \* the exception run raised: "none", "TypeError", "ValueError"
    decided,        \* log: what decide_bet returned on each call for this strategy
    finished,       \* log: the records of each strategy whose loop ended, in list order
    runs,           \* log: the number of calls of run on this Simulation
    prior           \* log: the strategies, with their state, as the current call of run found them

vars == <<strategies, game, max_bet, start_value, self_history, pc, rounds,
          stop_condition, si, r, history, gain, broke, results, returned,
          error, decided, finished, runs, prior>>

calls == <<runs, prior>>

config == <<max_bet, start_value, self_history>>

EmptyMap == [n \in {} |-> 0]

\* ------------------------------------------------------------- History
Record(outcome, bet, total_gain) ==
    [outcome |-> outcome, bet |-> bet, total_gain |-> total_gain]

add_record_Prepend(records, outcome, bet, total_gain) ==
    <<Record(outcome, bet, total_gain)>> \o records

\* History.add_record
add_record(records, outcome, bet, total_gain) ==
    Append(records, Record(outcome, bet, total_gain))

is_empty(records) == Len(records) = 0

length(records) == Len(records)

\* ------------------------------------------------------------- Strategy
\* decide_bet: the set of [bet, strategy'] a call on `records` may produce.
FixedDecideBet(s, records) == {[bet |-> s.bet_amount, strategy |-> s]}

DoubleDecideBet_KeepsOnEmpty(s, records) ==
    LET cur == IF is_empty(records) THEN s.current_bet
               ELSE IF records[Len(records)].outcome = -1
               THEN Num(s.current_bet.val * 2)
               ELSE s.bet_amount
    IN {[bet |-> cur, strategy |-> [s EXCEPT !.current_bet = cur]]}

\* DoubleOnLossStrategy.decide_bet
DoubleDecideBet(s, records) ==
    LET cur == IF ~is_empty(records) /\ records[Len(records)].outcome = -1
               THEN Num(s.current_bet.val * 2)
               ELSE s.bet_amount
    IN {[bet |-> cur, strategy |-> [s EXCEPT !.current_bet = cur]]}

AnyDecideBet(s, records) == {[bet |-> b, strategy |-> s] : b \in AnyBets}

decide_bet(s, records) ==
    CASE s.kind = "fixed" -> FixedDecideBet(s, records)
      [] s.kind = "double" -> DoubleDecideBet(s, records)
      [] s.kind = "any" -> AnyDecideBet(s, records)

\* ----------------------------------------------------------------- Game
\* play_round with rand() = rnd: [outcome, game'].
BernoulliPlayRound(g, rnd) ==
    [outcome |-> IF rnd < g.p THEN 1 ELSE -1, game |-> g]

RandomWalkPlayRound_NoAccumulate(g, rnd) ==
    LET step == IF rnd < g.p THEN 1 ELSE -1
        pos == step
    IN [outcome |-> IF g.a <= pos /\ pos <= g.b THEN 1 ELSE -1,
        game |-> [g EXCEPT !.position = pos, !.step_list = Append(g.step_list, step)]]

RandomWalkPlayRound_ExclusiveBand(g, rnd) ==
    LET step == IF rnd < g.p THEN 1 ELSE -1
        pos == g.position + step
    IN [outcome |-> IF g.a < pos /\ pos < g.b THEN 1 ELSE -1,
        game |-> [g EXCEPT !.position = pos, !.step_list = Append(g.step_list, step)]]

\* RandomWalkGame.play_round
RandomWalkPlayRound(g, rnd) ==
    LET step == IF rnd < g.p THEN 1 ELSE -1
        pos == g.position + step
    IN [outcome |-> IF g.a <= pos /\ pos <= g.b THEN 1 ELSE -1,
        game |-> [g EXCEPT !.position = pos, !.step_list = Append(g.step_list, step)]]

play_round(g, rnd) ==
    IF g.kind = "bernoulli" THEN BernoulliPlayRound(g, rnd) ELSE RandomWalkPlayRound(g, rnd)

\* Simulation.get_history
get_history(records) == records

\* --------------------------------------------------------------- Result
Max2(x, y) == IF x > y THEN x ELSE y

Min2(x, y) == IF x < y THEN x ELSE y

RECURSIVE MaxOf(_, _)
\* max of f over 1..n (n >= 1)
MaxOf(f, n) == IF n = 1 THEN f[1] ELSE Max2(MaxOf(f, n - 1), f[n])

RECURSIVE MinOf(_, _)
MinOf(f, n) == IF n = 1 THEN f[1] ELSE Min2(MinOf(f, n - 1), f[n])

RECURSIVE SumOf(_, _)
SumOf(f, n) == IF n = 0 THEN 0 ELSE SumOf(f, n - 1) + f[n]

cummax_Overall(f) == [i \in 1..Len(f) |-> MaxOf(f, Len(f))]

\* Series.cummax(): the running maximum
cummax(f) == [i \in 1..Len(f) |-> MaxOf(f, i)]

Column(records, name) ==
    [i \in 1..Len(records) |->
        CASE name = "outcome" -> records[i].outcome
          [] name = "bet" -> records[i].bet
          [] name = "total_gain" -> records[i].total_gain]

\* History.max_drawdown
max_drawdown(records) ==
    IF ~is_empty(records)
    THEN LET gains == Column(records, "total_gain")
             cumulative_max == cummax(gains)
             drawdowns == [i \in 1..Len(gains) |-> cumulative_max[i] - gains[i]]
         IN MaxOf(drawdowns, Len(drawdowns))
    ELSE 0

Result_FirstGain(records) ==
    [history |-> records,
     total_rounds |-> Len(records),
     final_gain |-> IF Len(records) > 0 THEN records[1].total_gain ELSE 0]

\* Result.__init__
Result(records) ==
    [history |-> records,
     total_rounds |-> Len(records),
     final_gain |-> IF Len(records) > 0 THEN records[Len(records)].total_gain ELSE 0]

\* Result.compute_statistics; average_bet is the exact fraction num/den
compute_statistics(res) ==
    LET n == res.total_rounds
        bets == Column(res.history, "bet")
        gains == Column(res.history, "total_gain")
        peak == cummax(gains)
        drawdowns == [i \in 1..Len(gains) |-> peak[i] - gains[i]]
    IN [total_rounds |-> res.total_rounds,
        final_gain |-> res.final_gain,
        average_bet |-> IF n > 0 THEN [num |-> SumOf(bets, Len(bets)), den |-> Len(bets)]
                                 ELSE [num |-> 0, den |-> 1],
        max_bet |-> IF n > 0 THEN MaxOf(bets, Len(bets)) ELSE 0,
        min_bet |-> IF n > 0 THEN MinOf(bets, Len(bets)) ELSE 0,
        max_drawdown |-> IF n > 0 THEN MaxOf(drawdowns, Len(drawdowns)) ELSE 0]

\* ----------------------------------------------------------- Simulation
\* `if bet is None: bet = 0.0`
NoneToZero(bet) == IF bet.tag = "none" THEN Num(0) ELSE bet

Convertible_Always(bet) == TRUE

\* float(bet) succeeds
Convertible(bet) == bet.tag \in {"num", "numstr"}

\* float(bet), for a bet it succeeds on
ToFloat(bet) == bet.val

IsNegative_Never(x) == FALSE

\* `if bet < 0`
IsNegative(x) == x < 0

Clip_None(x, cap) == x

\* `if bet > self.max_bet: bet = float(self.max_bet)`
Clip(x, cap) == IF x > cap THEN cap ELSE x

InitialGain_Zero(start) == 0

\* `gain = float(self.start_value)`
InitialGain(start) == start

NextGain_IgnoreOutcome(g, bet, outcome) == g + bet

\* `gain += bet * outcome`
NextGain(g, bet, outcome) == g + bet * outcome

\* the caller's stop_condition(history), for the predicates of StopConditions
StopHolds(stop, records) ==
    CASE stop = "always" -> TRUE
      [] stop = "loss" -> records[Len(records)].outcome = -1
      [] stop = "len2" -> Len(records) >= 2
      [] stop = "none" -> FALSE

\* `if stop_condition and stop_condition(history): break`
StopNow(stop, records) == stop # "none" /\ StopHolds(stop, records)

InLoop_OneMore(i, n, stopped) == i <= n /\ ~stopped

InLoop_StopCheckedFirst(i, n, stopped) ==
    i < n /\ ~stopped /\ stop_condition # "always"

\* `for _ in range(rounds)` has another iteration and no break was taken
InLoop(i, n, stopped) == i < n /\ ~stopped

StoreResult_KeepFirst(map, name, res) ==
    [n \in DOMAIN map \cup {name} |-> IF n \in DOMAIN map THEN map[n] ELSE res]

\* `results[strategy.name] = Result(...)`
StoreResult(map, name, res) ==
    [n \in DOMAIN map \cup {name} |-> IF n = name THEN res ELSE map[n]]

\* the state after Simulation(strategies, game, max_bet, start_value)
Constructed(lists, games) ==
    /\ strategies \in lists
    /\ game \in games
    /\ max_bet \in MaxBets
    /\ start_value \in StartValues
    /\ self_history = <<>>
    /\ pc = "idle"
    /\ rounds = 0
    /\ stop_condition = "none"
    /\ si = 1
    /\ r = 0
    /\ history = <<>>
    /\ gain = 0
    /\ broke = FALSE
    /\ results = EmptyMap
    /\ returned = [ok |-> FALSE, value |-> EmptyMap]
    /\ error = "none"
    /\ decided = <<>>
    /\ finished = <<>>
    /\ runs = 1
    /\ prior = strategies

Init == Constructed(StrategyLists, Games)

\* run(rounds, stop_condition) is called: `results = {}`
Run ==
    /\ pc = "idle"
    /\ \E n \in 0..MaxRounds, stop \in StopConditions :
          /\ rounds' = n
          /\ stop_condition' = stop
    /\ results' = EmptyMap
    /\ si' = 1
    /\ pc' = "next"
    /\ prior' = strategies
    /\ UNCHANGED <<strategies, game, config, runs, r, history, gain, broke, returned,
                   error, decided, finished>>

StartStrategy_KeepsHistory ==
    /\ pc = "next"
    /\ si <= Len(strategies)
    /\ gain' = InitialGain(start_value)
    /\ r' = 0
    /\ broke' = FALSE
    /\ decided' = <<>>
    /\ pc' = "loop"
    /\ UNCHANGED <<strategies, game, config, calls, rounds, stop_condition, si, results,
                   returned, error, finished, history>>

\* `for strategy in self.strategies:` takes the next strategy
StartStrategy ==
    /\ pc = "next"
    /\ si <= Len(strategies)
    /\ history' = <<>>
    /\ gain' = InitialGain(start_value)
    /\ r' = 0
    /\ broke' = FALSE
    /\ decided' = <<>>
    /\ pc' = "loop"
    /\ UNCHANGED <<strategies, game, config, calls, rounds, stop_condition, si, results,
                   returned, error, finished>>

\* one iteration that ends in `raise TypeError`
RoundTypeError ==
    /\ pc = "loop"
    /\ InLoop(r, rounds, broke)
    /\ \E d \in decide_bet(strategies[si], history) :
          /\ ~Convertible(NoneToZero(d.bet))
          /\ strategies' = [strategies EXCEPT ![si] = d.strategy]
          /\ decided' = Append(decided, d.bet)
    /\ error' = "TypeError"
    /\ pc' = "raised"
    /\ UNCHANGED <<game, config, calls, rounds, stop_condition, si, r, history, gain,
                   broke, results, returned, finished>>

RoundValueError_AfterPlay ==
    /\ pc = "loop"
    /\ InLoop(r, rounds, broke)
    /\ \E d \in decide_bet(strategies[si], history), rnd \in RandVals :
          /\ Convertible(NoneToZero(d.bet))
          /\ IsNegative(ToFloat(NoneToZero(d.bet)))
          /\ strategies' = [strategies EXCEPT ![si] = d.strategy]
          /\ decided' = Append(decided, d.bet)
          /\ game' = play_round(game, rnd).game
    /\ error' = "ValueError"
    /\ pc' = "raised"
    /\ UNCHANGED <<config, calls, rounds, stop_condition, si, r, history, gain,
                   broke, results, returned, finished>>

\* one iteration that ends in `raise ValueError`
RoundValueError ==
    /\ pc = "loop"
    /\ InLoop(r, rounds, broke)
    /\ \E d \in decide_bet(strategies[si], history) :
          /\ Convertible(NoneToZero(d.bet))
          /\ IsNegative(ToFloat(NoneToZero(d.bet)))
          /\ strategies' = [strategies EXCEPT ![si] = d.strategy]
          /\ decided' = Append(decided, d.bet)
    /\ error' = "ValueError"
    /\ pc' = "raised"
    /\ UNCHANGED <<game, config, calls, rounds, stop_condition, si, r, history, gain,
                   broke, results, returned, finished>>

PlayRound_WritesOwnHistory ==
    /\ pc = "loop"
    /\ InLoop(r, rounds, broke)
    /\ \E d \in decide_bet(strategies[si], history), rnd \in RandVals :
          /\ Convertible(NoneToZero(d.bet))
          /\ ~IsNegative(ToFloat(NoneToZero(d.bet)))
          /\ LET bet == Clip(ToFloat(NoneToZero(d.bet)), max_bet)
                 played == play_round(game, rnd)
                 g == NextGain(gain, bet, played.outcome)
                 h == add_record(history, played.outcome, bet, g)
             IN /\ game' = played.game
                /\ gain' = g
                /\ history' = h
                /\ self_history' = add_record(self_history, played.outcome, bet, g)
                /\ broke' = StopNow(stop_condition, h)
          /\ strategies' = [strategies EXCEPT ![si] = d.strategy]
          /\ decided' = Append(decided, d.bet)
    /\ r' = r + 1
    /\ UNCHANGED <<max_bet, start_value, calls, rounds, stop_condition, si, pc, results,
                   returned, error, finished>>

\* one complete iteration: bet, clip, play, gain, record, stop check
PlayRound ==
    /\ pc = "loop"
    /\ InLoop(r, rounds, broke)
    /\ \E d \in decide_bet(strategies[si], history), rnd \in RandVals :
          /\ Convertible(NoneToZero(d.bet))
          /\ ~IsNegative(ToFloat(NoneToZero(d.bet)))
          /\ LET bet == Clip(ToFloat(NoneToZero(d.bet)), max_bet)
                 played == play_round(game, rnd)
                 g == NextGain(gain, bet, played.outcome)
                 h == add_record(history, played.outcome, bet, g)
             IN /\ game' = played.game
                /\ gain' = g
                /\ history' = h
                /\ broke' = StopNow(stop_condition, h)
          /\ strategies' = [strategies EXCEPT ![si] = d.strategy]
          /\ decided' = Append(decided, d.bet)
    /\ r' = r + 1
    /\ UNCHANGED <<config, calls, rounds, stop_condition, si, pc, results, returned,
                   error, finished>>

\* the inner loop is over: `results[strategy.name] = Result(history.get_records())`
FinishStrategy ==
    /\ pc = "loop"
    /\ ~InLoop(r, rounds, broke)
    /\ results' = StoreResult(results, strategies[si].name, Result(history))
    /\ finished' = Append(finished, history)
    /\ si' = si + 1
    /\ pc' = "next"
    /\ UNCHANGED <<strategies, game, config, calls, rounds, stop_condition, r, history,
                   gain, broke, returned, error, decided>>

\* `return results`
Return ==
    /\ pc = "next"
    /\ si > Len(strategies)
    /\ returned' = [ok |-> TRUE, value |-> results]
    /\ pc' = "returned"
    /\ UNCHANGED <<strategies, game, config, calls, rounds, stop_condition, si, r,
                   history, gain, broke, results, error, decided, finished>>

Next ==
    \/ Run
    \/ StartStrategy
    \/ RoundTypeError
    \/ RoundValueError
    \/ PlayRound
    \/ FinishStrategy
    \/ Return

Spec == Init /\ [][Next]_vars

\* run is straight-line sequential code: whatever step is next is taken
FairSpec == Spec /\ WF_vars(Next)

\* run(rounds, stop_condition) is called again on the same Simulation, after
\* the call before returned or raised: the locals of that call are gone, the
\* strategies and the game are as it left them
Rerun ==
    /\ pc \in {"returned", "raised"}
    /\ runs < MaxRuns
    /\ \E n \in 0..MaxRounds, stop \in StopConditions :
          /\ rounds' = n
          /\ stop_condition' = stop
    /\ results' = EmptyMap
    /\ si' = 1
    /\ pc' = "next"
    /\ runs' = runs + 1
    /\ prior' = strategies
    /\ r' = 0
    /\ history' = <<>>
    /\ gain' = 0
    /\ broke' = FALSE
    /\ returned' = [ok |-> FALSE, value |-> EmptyMap]
    /\ error' = "none"
    /\ decided' = <<>>
    /\ finished' = <<>>
    /\ UNCHANGED <<strategies, game, config>>

RerunInit == Constructed(RerunStrategyLists, RerunGames)

RerunNext ==
    \/ Next
    \/ Rerun

\* a Simulation on which run is called up to MaxRuns times
RerunSpec == RerunInit /\ [][RerunNext]_vars

\* ======================================================================
\* Properties
\* ======================================================================

\* the records of every strategy run so far: the finished ones and the current one
Histories == {history} \cup {finished[i] : i \in 1..Len(finished)}

RECURSIVE SumProd(_, _)
\* sum over k <= i of bet_k * outcome_k
SumProd(h, i) == IF i = 0 THEN 0 ELSE SumProd(h, i - 1) + h[i].bet * h[i].outcome

PrevGain(h, i) == IF i = 1 THEN start_value ELSE h[i - 1].total_gain

\* the number decide_bet's i-th answer stands for (None stands for 0)
Returned(i) == IF decided[i].tag = "none" THEN 0 ELSE decided[i].val

\* C1: in every strategy's history the total_gain of the i-th record is
\* start_value plus the sum over k <= i of bet_k * outcome_k, and the running
\* gain is that of the last record.
C1_GainIsStartPlusSum ==
    /\ \A h \in Histories : \A i \in 1..Len(h) :
          h[i].total_gain = start_value + SumProd(h, i)
    /\ pc = "loop" => gain = start_value + SumProd(history, Len(history))

\* fixed bet 10, a game that always wins, start 100: gains 110, 120, 130
C1_Witness ==
    /\ pc = "loop"
    /\ strategies[si].kind = "fixed"
    /\ game = BenoulliProcess(100)
    /\ start_value = 100
    /\ Len(history) = 3
    /\ \A i \in 1..3 : history[i].bet = 10 /\ history[i].outcome = 1
    /\ history[1].total_gain = 110
    /\ history[2].total_gain = 120
    /\ history[3].total_gain = 130

\* C2: a negative bet ends run with a ValueError in the round it is returned:
\* no record is appended for it, nothing is returned and no Result is made
\* for that strategy, and run does nothing more.
C2_NegativeBetRaisesValueError ==
    \A i \in 1..Len(decided) :
        (decided[i].tag \in {"num", "numstr"} /\ decided[i].val < 0) =>
            /\ pc = "raised"
            /\ error = "ValueError"
            /\ i = Len(decided)
            /\ Len(history) = i - 1
            /\ ~returned.ok
            /\ Len(finished) = si - 1
            /\ ~ENABLED Next

\* a ValueError on a round after the first
C2_Witness ==
    /\ error = "ValueError"
    /\ Len(decided) >= 2
    /\ decided[Len(decided)] = Num(-5)
    /\ Len(history) = Len(decided) - 1

\* C3: a bet float() rejects ends the whole run with a TypeError: nothing is
\* returned, not even for the strategies already finished, and no later
\* strategy is run.
C3_NonNumericBetAbortsRun ==
    \A i \in 1..Len(decided) :
        decided[i].tag = "obj" =>
            /\ pc = "raised"
            /\ error = "TypeError"
            /\ i = Len(decided)
            /\ Len(history) = i - 1
            /\ ~returned.ok
            /\ returned.value = EmptyMap
            /\ Len(finished) = si - 1
            /\ ~ENABLED Next

\* the second of three strategies raises after the first finished its rounds
C3_Witness ==
    /\ error = "TypeError"
    /\ si = 2
    /\ Len(strategies) = 3
    /\ Len(finished) = 1
    /\ Len(finished[1]) = rounds
    /\ rounds >= 2
    /\ DOMAIN results # {}

\* C4: the bet recorded and used in the gain update is min(returned bet,
\* max_bet); a returned bet above max_bet raises no error; no recorded bet
\* exceeds max_bet.
C4_BetIsClipped ==
    /\ \A i \in 1..Len(history) :
          /\ history[i].bet = (IF Returned(i) < max_bet THEN Returned(i) ELSE max_bet)
          /\ history[i].total_gain = PrevGain(history, i) + history[i].bet * history[i].outcome
    /\ \A i \in 1..Len(decided) :
          (decided[i].tag = "num" /\ Returned(i) > max_bet /\ Returned(i) >= 0) =>
              i <= Len(history)
    /\ \A h \in Histories : \A i \in 1..Len(h) : h[i].bet <= max_bet

\* a bet of 30 against max_bet 20 is recorded as 20, and the run goes on
C4_Witness ==
    /\ max_bet = 20
    /\ error = "none"
    /\ \E i \in 1..Len(history) :
          /\ decided[i] = Num(30)
          /\ history[i].bet = 20
          /\ history[i].total_gain = PrevGain(history, i) + 20 * history[i].outcome

\* C5: every recorded bet is non-negative, whatever max_bet is.
C5_RecordedBetsNonNegative ==
    \A h \in Histories : \A i \in 1..Len(h) : h[i].bet >= 0

\* C6: a bet of None raises nothing and is played as a bet of 0: a record
\* with bet 0 is appended and the total_gain is that of the round before.
C6_NoneBetIsZeroBet ==
    \A i \in 1..Len(decided) :
        decided[i].tag = "none" =>
            /\ i <= Len(history)
            /\ history[i].bet = 0
            /\ history[i].total_gain = PrevGain(history, i)

\* the rounds after which stop_condition(history) returns true
StopRounds(h) == {i \in 1..Len(h) : StopNow(stop_condition, SubSeq(h, 1, i))}

\* the strategies' loops are over: run returned or raised
Terminated == pc \in {"returned", "raised"}

\* the first round after which stop_condition(history) returns true
FirstStopRound(h) == CHOOSE i \in StopRounds(h) : \A j \in StopRounds(h) : i <= j

C7_RoundCount ==
    /\ \A h \in Histories :
          /\ Len(h) <= rounds
          /\ \A i \in StopRounds(h) : i = Len(h)
    /\ \A k \in 1..Len(finished) :
          Len(finished[k]) =
              (IF StopRounds(finished[k]) = {} THEN rounds ELSE FirstStopRound(finished[k]))

\* C7: every strategy's loop terminates; a strategy whose loop ended without
\* error played exactly `rounds` rounds when stop_condition is absent or never
\* returned true, and otherwise stopped at the first round after which it
\* returned true; no strategy plays more than `rounds` rounds or a round after
\* stop_condition returned true.
C7_RoundsPlayedAndTermination == []C7_RoundCount /\ <>Terminated

\* one strategy stopped early on its first loss, another played all its rounds
C7_Witness ==
    /\ pc = "returned"
    /\ stop_condition = "loss"
    /\ rounds = 3
    /\ \E j, k \in 1..Len(finished) :
          /\ Len(finished[j]) = 2
          /\ finished[j][2].outcome = -1
          /\ Len(finished[k]) = 3
          /\ \A i \in 1..3 : finished[k][i].outcome = 1

RECURSIVE Concat(_, _)
\* the records of the first n finished histories, end to end
Concat(hs, n) == IF n = 0 THEN <<>> ELSE Concat(hs, n - 1) \o hs[n]

\* every record written since the game was made, in the order played
AllRecords ==
    Concat(finished, Len(finished)) \o (IF pc \in {"loop", "raised"} THEN history ELSE <<>>)

\* C8: the game is never reset between strategies: a RandomWalkGame's
\* step_list has one step per round played by all strategies together, its
\* position is the sum of those steps, and the outcome of every round, the
\* first round of a later strategy included, is decided by the position
\* accumulated over all rounds played before it.
C8_GameSharedAcrossStrategies ==
    game.kind = "randomwalk" =>
        /\ Len(game.step_list) = Len(AllRecords)
        /\ game.position = SumOf(game.step_list, Len(game.step_list))
        /\ \A j \in 1..Len(AllRecords) :
              AllRecords[j].outcome =
                  (IF game.a <= SumOf(game.step_list, j) /\ SumOf(game.step_list, j) <= game.b
                   THEN 1 ELSE -1)

\* the first strategy leaves the walk at +1; the second strategy's first step
\* takes it to +2, outside [-1, 1], a loss a fresh walk could not give
C8_Witness ==
    /\ game.kind = "randomwalk"
    /\ pc = "returned"
    /\ Len(finished) >= 2
    /\ Len(finished[1]) = 1
    /\ Len(finished[2]) >= 1
    /\ finished[2][1].outcome = -1
    /\ game.step_list[1] = 1
    /\ game.step_list[2] = 1

Names == {strategies[i].name : i \in 1..Len(strategies)}

\* the last strategy of the list named n
LastNamed(n) ==
    CHOOSE i \in 1..Len(strategies) :
        /\ strategies[i].name = n
        /\ \A j \in 1..Len(strategies) : strategies[j].name = n => j <= i

\* C9: the mapping run returns has exactly one entry per distinct strategy
\* name; every strategy of the list was run, in list order, on the shared
\* game; the entry of a name is the Result of the last strategy of that name.
C9_OneResultPerName ==
    returned.ok =>
        /\ DOMAIN returned.value = Names
        /\ Len(finished) = Len(strategies)
        /\ \A n \in Names : returned.value[n] = Result(finished[LastNamed(n)])
        /\ game.kind = "randomwalk" =>
              Len(game.step_list) = Len(Concat(finished, Len(finished)))

\* two strategies of one name with different records: the later one's is kept
C9_Witness ==
    /\ returned.ok
    /\ Len(strategies) = 2
    /\ strategies[1].name = strategies[2].name
    /\ finished[1] # finished[2]
    /\ Len(finished[1]) >= 1
    /\ returned.value[strategies[1].name].history = finished[2]
    /\ Cardinality(DOMAIN returned.value) = 1

\* every Result built so far
Results ==
    {results[n] : n \in DOMAIN results} \cup {returned.value[n] : n \in DOMAIN returned.value}

\* C10: a Result's total_rounds, and compute_statistics()["total_rounds"], is
\* the number of its records; its final_gain, and
\* compute_statistics()["final_gain"], is the total_gain of the last record,
\* or 0 when there are no records.
C10_ResultRoundsAndFinalGain ==
    \A res \in Results :
        LET n == Len(res.history)
            last == IF n = 0 THEN 0 ELSE res.history[n].total_gain
            stats == compute_statistics(res)
        IN /\ res.total_rounds = n
           /\ stats.total_rounds = n
           /\ res.final_gain = last
           /\ stats.final_gain = last

\* a Result of three records whose gains differ
C10_Witness ==
    \E res \in Results :
        /\ Len(res.history) = 3
        /\ res.history[1].total_gain # res.history[3].total_gain
        /\ res.final_gain = res.history[3].total_gain

\* C11 as stated: the final_gain of a Result is the total_gain of its last
\* record, or start_value when no round ran.
C11_FinalGainOrStartValue ==
    \A res \in Results :
        res.final_gain = (IF Len(res.history) = 0 THEN start_value
                          ELSE res.history[Len(res.history)].total_gain)

\* C11, amended: the final_gain of a Result run produces is the gain the
\* strategy ended its rounds with, start_value plus the sum of bet * outcome
\* over its records, and 0 (not start_value) when no round ran.
C11_FinalGainOrZero ==
    \A n \in DOMAIN results :
        LET h == results[n].history
        IN results[n].final_gain =
               (IF Len(h) = 0 THEN 0 ELSE start_value + SumProd(h, Len(h)))

\* run(0) on a Simulation with start_value 100: the gain is 100, the Result says 0
C11_Witness ==
    /\ pc = "returned"
    /\ rounds = 0
    /\ start_value = 100
    /\ gain = 100
    /\ \E n \in DOMAIN returned.value :
          /\ returned.value[n].total_rounds = 0
          /\ returned.value[n].final_gain = 0

C12_Lengths ==
    /\ length(history) = r
    /\ is_empty(history) <=> length(history) = 0
    /\ \A h \in Histories : is_empty(h) <=> length(h) = 0

\* a step that changes the history either starts a fresh one or is one round's
\* add_record: one record more, the earlier ones as they were, the new one last
C12_Step ==
    history' # history =>
        \/ history' = <<>>
        \/ /\ length(history') = length(history) + 1
           /\ r' = r + 1
           /\ \A i \in 1..Len(history) : history'[i] = history[i]
           /\ history'[Len(history')].total_gain = gain'
           /\ history'[Len(history')].bet <= max_bet

\* C12: History is append-only: its length is the number of add_record calls
\* (one per completed round), each call adds exactly one record at the end and
\* leaves the earlier records as they were, and is_empty is length = 0.
C12_HistoryAppendOnly == []C12_Lengths /\ [][C12_Step]_vars

\* three rounds, three records in the order played
C12_Witness ==
    /\ r = 3
    /\ length(history) = 3
    /\ history[1].total_gain # history[2].total_gain
    /\ history[2].total_gain # history[3].total_gain
    /\ history[3].total_gain = gain

C13_OwnRecords ==
    /\ pc = "loop" => Len(history) = r /\ Len(decided) = r
    /\ pc = "raised" => Len(history) = r /\ Len(decided) = r + 1
    /\ (pc = "loop" /\ r = 0) => gain = start_value
    /\ (pc = "loop" /\ r >= 1) => broke = StopNow(stop_condition, history)
    /\ \A h \in Histories :
          /\ Len(h) <= rounds
          /\ Len(h) >= 1 => h[1].total_gain = start_value + h[1].bet * h[1].outcome
    /\ \A k \in 1..Len(finished) :
          (\A j \in (k + 1)..Len(finished) : strategies[j].name # strategies[k].name) =>
              results[strategies[k].name].history = finished[k]

\* a strategy starts on an empty history and on start_value
C13_Fresh ==
    (pc = "next" /\ pc' = "loop") => (history' = <<>> /\ gain' = start_value)

\* C13: every strategy of a run gets a fresh History and a gain of
\* start_value: at its k-th round decide_bet and play_round see its own k-1
\* records, stop_condition its own k records, and its Result holds only its
\* own records.
C13_IndependentHistories == []C13_OwnRecords /\ [][C13_Fresh]_vars

\* the second strategy after its first round, the first having played three
C13_Witness ==
    /\ pc = "loop"
    /\ si = 2
    /\ Len(finished) = 1
    /\ Len(finished[1]) = 3
    /\ finished[1][3].total_gain # start_value
    /\ Len(history) = 1
    /\ history[1].total_gain = start_value + history[1].bet * history[1].outcome

\* max over i of (max over j <= i of total_gain_j) - total_gain_i
PeakToCurrent(h) ==
    LET D == {h[j].total_gain - h[i].total_gain : <<i, j>> \in {p \in (1..Len(h)) \X (1..Len(h)) : p[2] <= p[1]}}
    IN IF Len(h) = 0 THEN 0 ELSE CHOOSE d \in D : \A e \in D : e <= d

NonDecreasing(h) == \A i \in 1..(Len(h) - 1) : h[i].total_gain <= h[i + 1].total_gain

\* C14: History.max_drawdown() and compute_statistics()["max_drawdown"] are
\* both max over i of (max over j <= i of total_gain_j - total_gain_i), 0 for
\* no records, never negative, and 0 when total_gain never decreases.
C14_MaxDrawdown ==
    /\ \A h \in Histories :
          LET dd == max_drawdown(h)
          IN /\ dd = PeakToCurrent(h)
             /\ dd >= 0
             /\ NonDecreasing(h) => dd = 0
             /\ Len(h) = 0 => dd = 0
    /\ \A res \in Results :
          LET dd == compute_statistics(res).max_drawdown
          IN /\ dd = PeakToCurrent(res.history)
             /\ dd >= 0
             /\ NonDecreasing(res.history) => dd = 0

\* a Result whose gains fall from a first peak and then climb to a higher one
C14_Witness ==
    \E res \in Results :
        /\ Len(res.history) = 3
        /\ res.history[2].total_gain < res.history[1].total_gain
        /\ res.history[3].total_gain > res.history[1].total_gain
        /\ compute_statistics(res).max_drawdown =
               res.history[1].total_gain - res.history[2].total_gain
        /\ max_drawdown(res.history) = compute_statistics(res).max_drawdown

\* the strategy the log `decided` belongs to (0: none yet)
Owner == IF pc \in {"loop", "raised"} THEN si ELSE si - 1

RECURSIVE LossRun(_, _)
\* the number of consecutive outcomes -1 ending at record i of h
LossRun(h, i) == IF i = 0 \/ h[i].outcome # -1 THEN 0 ELSE 1 + LossRun(h, i - 1)

RECURSIVE Pow2(_)
Pow2(n) == IF n = 0 THEN 1 ELSE 2 * Pow2(n - 1)

\* C15: called once per round, DoubleOnLossStrategy.decide_bet returns base_bet
\* on an empty history or after an outcome other than -1, and twice its last
\* answer after an outcome -1: base_bet * 2^L after L consecutive losses,
\* whatever current_bet an earlier run left behind.
C15_DoubleOnLoss ==
    (Owner >= 1 /\ Owner <= Len(strategies) /\ strategies[Owner].kind = "double") =>
        LET base == strategies[Owner].bet_amount.val
        IN /\ \A i \in 1..Len(decided) :
                 /\ decided[i] = Num(base * Pow2(LossRun(history, i - 1)))
                 /\ decided[i] = (IF i = 1 \/ history[i - 1].outcome # -1
                                  THEN Num(base)
                                  ELSE Num(2 * decided[i - 1].val))
           /\ Len(decided) >= 1 => strategies[Owner].current_bet = decided[Len(decided)]

\* a second run on a strategy the first run left at 4: bets 1, 2, 4 on
\* outcomes -1, -1
C15_Witness ==
    /\ runs = 2
    /\ Owner = 1
    /\ prior[1].kind = "double"
    /\ prior[1].current_bet = Num(4)
    /\ Len(history) = 3
    /\ history[1].outcome = -1
    /\ history[2].outcome = -1
    /\ history[3].outcome = 1
    /\ decided = <<Num(1), Num(2), Num(4)>>

C16_PositionIsSum ==
    game.kind = "randomwalk" =>
        game.position = SumOf(game.step_list, Len(game.step_list))

\* one call of RandomWalkGame.play_round: one step of +1 or -1, logged, and a
\* win exactly when the new position is in [a, b]
C16_Step ==
    (game' # game /\ game.kind = "randomwalk") =>
        LET step == game'.position - game.position
        IN /\ step \in {1, -1}
           /\ game' = [game EXCEPT !.position = game.position + step,
                                   !.step_list = Append(game.step_list, step)]
           /\ Len(history') = Len(history) + 1
           /\ history'[Len(history')].outcome =
                  (IF game.a <= game'.position /\ game'.position <= game.b THEN 1 ELSE -1)

\* C16: RandomWalkGame.play_round moves the position by exactly +1 or -1 and
\* wins iff the position after the step is in the inclusive band [a, b]; the
\* position persists across calls and is the sum of step_list.
C16_RandomWalk == []C16_PositionIsSum /\ [][C16_Step]_vars

\* a = -1, b = 1, steps +1, +1: the position is 2 and the second round loses
C16_Witness ==
    /\ game.kind = "randomwalk"
    /\ game.a = -1
    /\ game.b = 1
    /\ game.step_list = <<1, 1>>
    /\ game.position = 2
    /\ Len(history) = 2
    /\ history[1].outcome = 1
    /\ history[2].outcome = -1

C17_AfterError ==
    pc = "raised" =>
        /\ Len(history) = Len(decided) - 1
        /\ Len(history) = r
        /\ game.kind = "randomwalk" => Len(game.step_list) = Len(AllRecords)

\* the round that raises calls decide_bet and nothing after it
C17_Step ==
    (error = "none" /\ error' # "none") =>
        /\ Len(decided') = Len(decided) + 1
        /\ game' = game
        /\ history' = history
        /\ gain' = gain
        /\ finished' = finished
        /\ results' = results

\* C17: a round that fails on its bet with a TypeError or a ValueError has
\* called decide_bet but not play_round and has appended no record: the game
\* and the history are as the round before left them.
C17_ErrorBeforePlay == []C17_AfterError /\ [][C17_Step]_vars

\* a ValueError on the third round of a random walk: two steps, two records
C17_Witness ==
    /\ pc = "raised"
    /\ error = "ValueError"
    /\ game.kind = "randomwalk"
    /\ Len(decided) = 3
    /\ Len(history) = 2
    /\ Len(game.step_list) = Len(AllRecords)
    /\ Len(AllRecords) >= 2

\* C18: stop_condition is evaluated only on a history that holds the round
\* just played: with rounds >= 1 every strategy whose loop ends has played at
\* least one round, even under a stop_condition that is always true, and the
\* round after which stop_condition returned true is in its Result.
C18_StopAfterAppend ==
    /\ broke => (Len(history) >= 1 /\ StopNow(stop_condition, history))
    /\ \A k \in 1..Len(finished) :
          /\ rounds >= 1 => Len(finished[k]) >= 1
          /\ (rounds >= 1 /\ stop_condition = "always") => Len(finished[k]) = 1
    /\ \A n \in DOMAIN results :
          LET h == results[n].history
          IN /\ rounds >= 1 => (Len(h) >= 1 /\ results[n].total_rounds >= 1)
             /\ Len(h) < rounds => StopNow(stop_condition, h)

\* a stop_condition that is always true, three rounds asked: one round each
C18_Witness ==
    /\ pc = "returned"
    /\ stop_condition = "always"
    /\ rounds = 3
    /\ Len(finished) = 2
    /\ Len(finished[1]) = 1
    /\ Len(finished[2]) = 1
    /\ \A n \in DOMAIN returned.value : returned.value[n].total_rounds = 1

\* C19: run never writes the Simulation's own history: get_history() has no
\* record, however often run was called.
C19_OwnHistoryUntouched == Len(get_history(self_history)) = 0

\* a second run has returned with records in its Results
C19_Witness ==
    /\ runs = 2
    /\ pc = "returned"
    /\ \E n \in DOMAIN returned.value : returned.value[n].total_rounds = 3
    /\ get_history(self_history) = <<>>

====
